---- MODULE Spec2Model ----
(***************************************************************************)
(* Process supervision engine of scripts/config-server.py: the registry    *)
(* TEST_PROCESSES and the handlers handle_test_command (spawn),            *)
(* handle_test_output (poll), handle_stop_test (terminate),                *)
(* cleanup_test_processes (drainAll) and run_server's signal handler.      *)
(*                                                                         *)
(* The server is a plain http.server.HTTPServer: one thread accepts a      *)
(* request, runs its handler to the end and only then accepts the next.    *)
(* A handler is cut into steps where something else happens in between: a  *)
(* supervised process writing or exiting, or SIGTERM/SIGINT reaching the   *)
(* server (Python runs the signal handler in the main thread, inside       *)
(* whatever frame is executing).  Signals take effect between these steps; *)
(* a kill takes effect at once (well inside the 1 s grace interval).       *)
(*                                                                         *)
(* Two environments share the actions: the detailed one (Spec: few pids,   *)
(* every kind of command, OS faults, signals) and the capacity one         *)
(* (SpecCap: enough pids to fill the Registry, plain commands, no faults). *)
(*                                                                         *)
(* The second part is scripts/captive-portal-proxy.py: the classification  *)
(* of request paths on their characters (SpecClassify), and the proxy      *)
(* itself (SpecProxy): main's start-up with wait_for_wifi_connect, the     *)
(* request handlers handle_portal_detection and proxy_request with what    *)
(* urlopen and the client connection can do to them, and the shutdown      *)
(* handler.                                                                *)
(*                                                                         *)
(* The third part is handle_save_startup of config-server.py (SpecSave):   *)
(* the save of the startup command and the best-effort SIGHUP to the       *)
(* process manager named by /run/ossuary/process.pid.                      *)
(***************************************************************************)
EXTENDS Integers, FiniteSets, Sequences, TLC

\* ---------------------------------------------------------------- bounds
\* pids the OS hands out in the detailed environment
MaxPid == 2
\* pids the OS hands out in the capacity environment
CapPids == 6
\* output chunks a supervised process writes at most
MaxOut == 1
\* temporary file names available beyond one per pid
SpareFiles == 0

\* ------------------------------------------------------ program constants
MaxTestProcesses == 5
\* wait_for_wifi_connect(max_attempts=15, delay=2)
MaxAttempts == 15
MaxCommandLen == 4096
SIGTERM == 15
SIGKILL == 9

VARIABLES
    env,        \* the environment of this run (fixed by Init)
    procs,      \* OS process table: pid -> process group started by Popen
    files,      \* names of the output files that exist on disk
    sinks,      \* names whose output_handle file object is open
    registry,   \* TEST_PROCESSES: id (the pid) -> handle
    srv,        \* "serving" | "exited"
    pc,         \* position of the single server thread
    cur,        \* locals of the handler in progress
    resp,       \* the response written by the handler that just ended
    gone,       \* ids that poll or terminate removed from the registry
    reaped5,    \* a poll reaped a handle of a full registry, no spawn since
    \* captive-portal-proxy.py
    main,       \* position of the proxy's main thread
    attempts,   \* connect attempts made by wait_for_wifi_connect
    ready,      \* what wait_for_wifi_connect returned: "unknown", "yes", "no"
    backend,    \* what WiFi Connect on port 8080 does with a connection
    hpc,        \* position of the request handler thread
    req,        \* the request the handler thread serves
    verdict,    \* what is_portal_detection_request returned for it
    upstream,   \* the requests urlopen sent to the backend and its answer
    wire,       \* what the handler has written to the client, in order
    \* config-server.py, handle_save_startup
    config,     \* CONFIG_FILE: "missing", "corrupt" or the startup command in it
    pidfile,    \* /run/ossuary/process.pid
    manager,    \* what os.kill meets at each pid a PID file can name
    vpc,        \* position of handle_save_startup
    hups,       \* the pids the handler in progress sent SIGHUP to, in order
    vresp       \* the response of the handler that just ended

supVars == <<env, procs, files, sinks, registry, srv, pc, cur, resp, gone, reaped5>>
proxyVars == <<main, attempts, ready, backend, hpc, req, verdict, upstream, wire>>
saveVars == <<config, pidfile, manager, vpc, hups, vresp>>
vars == <<supVars, proxyVars, saveVars>>

\* ------------------------------------------------------------ environments
\* What a submitted command does once started:
\*   plain      dies on SIGTERM
\*   stubborn   the whole group ignores SIGTERM
\*   orphaning  the shell dies on SIGTERM, a child in its group ignores it
\*   protected  runs under another uid: every signal gets EPERM
\*   binary     like plain, but what it writes is not valid UTF-8
Kinds == {"plain", "stubborn", "orphaning", "protected", "binary"}
ExitCodes == {0, 1}

DetailEnv ==
    [pids |-> 1..MaxPid, kinds |-> Kinds, codes |-> ExitCodes,
     maxOut |-> MaxOut, nfiles |-> MaxPid + SpareFiles, faults |-> TRUE,
     watch |-> TRUE, anyPid |-> TRUE]

CapEnv ==
    [pids |-> 1..CapPids, kinds |-> {"plain"}, codes |-> {0},
     maxOut |-> 0, nfiles |-> CapPids, faults |-> FALSE, watch |-> FALSE,
     anyPid |-> FALSE]

\* --------------------------------------------------------------- commands
\* A command text is `lead` characters of surrounding whitespace around a
\* body of `body` characters that neither starts nor ends with whitespace.
Commands ==
    [json : {TRUE}, lead : {0, 1}, body : {0, 1, MaxCommandLen, MaxCommandLen + 1}]
        \cup {[json |-> FALSE, lead |-> 0, body |-> 0]}

RawLen(c) == c.lead + c.body
\* str.strip(): the surrounding whitespace goes, the body stays
StripLen(c) == c.body

\* ----------------------------------------------------------- OS processes
FreeProc == [st |-> "free", rc |-> 0, kind |-> "plain", kids |-> FALSE,
             sig |-> FALSE, out |-> 0]

NewProc(k) == [st |-> "run", rc |-> 0, kind |-> k, kids |-> (k = "orphaning"),
               sig |-> FALSE, out |-> 0]

\* a reaped leader keeps its pid busy (as the group id) while a child lives
Norm(p) == IF p.st = "reaped" /\ ~p.kids THEN FreeProc ELSE p

Reaped(p) == Norm([p EXCEPT !.st = "reaped", !.rc = 0])

\* os.killpg(os.getpgid(pid), s) on a group whose leader is not reaped
KillPg(p, s) ==
    IF p.kind = "protected" THEN [ok |-> FALSE, p |-> p]
    ELSE IF s = SIGTERM
         THEN [ok |-> TRUE,
               p |-> IF p.st = "run" /\ p.kind # "stubborn"
                     THEN [p EXCEPT !.st = "zombie", !.rc = -SIGTERM, !.sig = TRUE]
                     ELSE [p EXCEPT !.sig = TRUE]]
         ELSE [ok |-> TRUE,
               p |-> IF p.st = "run"
                     THEN [p EXCEPT !.st = "zombie", !.rc = -SIGKILL,
                                    !.kids = FALSE, !.sig = TRUE]
                     ELSE [p EXCEPT !.kids = FALSE, !.sig = TRUE]]

\* os.kill(pid, s): the leader alone
KillPid(p, s) ==
    IF p.kind = "protected" THEN [ok |-> FALSE, p |-> p]
    ELSE IF p.st # "run" \/ (s = SIGTERM /\ p.kind = "stubborn")
         THEN [ok |-> TRUE, p |-> [p EXCEPT !.sig = TRUE]]
         ELSE [ok |-> TRUE,
               p |-> [p EXCEPT !.st = "zombie", !.rc = -s, !.sig = TRUE]]

\* ---------------------------------------------------------------- handles
\* rc is Popen.returncode: {} for None, {c} once poll() has seen the exit
NewHandle(f) == [file |-> f, rc |-> {}]

\* Popen.poll(): reaps the child if it has exited
PopenPoll(h, p) ==
    IF h.rc = {} /\ p.st = "zombie"
    THEN [h |-> [h EXCEPT !.rc = {p.rc}], p |-> Reaped(p)]
    ELSE [h |-> h, p |-> p]

\* Popen.send_signal(s) behind Popen.terminate() / Popen.kill(): polls first,
\* signals only a child not yet reaped, lets PermissionError through
PopenSignal(h, p, s) ==
    LET q == PopenPoll(h, p) IN
    IF q.h.rc # {} THEN [ok |-> TRUE, h |-> q.h, p |-> q.p]
    ELSE LET k == KillPid(q.p, s) IN [ok |-> k.ok, h |-> q.h, p |-> k.p]

Ids == DOMAIN registry
Pids == DOMAIN procs
Running(id) == procs[id].st = "run"

\* len is len(command) once stripped
NoReq == [op |-> "none", id |-> 0, h |-> NewHandle(0), out |-> 0, len |-> 0]

\* the ids already removed by poll or terminate are recorded where the
\* environment asks for it
Removed(id) == IF env.watch THEN gone \cup {id} ELSE gone
NoResp == [op |-> "none", id |-> 0, status |-> 0, running |-> FALSE,
           code |-> {}, out |-> 0, n |-> 0, error |-> ""]

Reply(op, id, status) == [NoResp EXCEPT !.op = op, !.id = id, !.status = status,
                                        !.n = Cardinality(Ids)]

\* ------------------------------------------------ proxy: text and paths
\* A path is the sequence of its characters.
UpperCase == <<"A", "B", "C", "D", "E", "F", "G", "H", "I", "J", "K", "L",
              "M", "N", "O", "P", "Q", "R", "S", "T", "U", "V", "W", "X",
              "Y", "Z">>
LowerCase == <<"a", "b", "c", "d", "e", "f", "g", "h", "i", "j", "k", "l",
              "m", "n", "o", "p", "q", "r", "s", "t", "u", "v", "w", "x",
              "y", "z">>

\* str.lower() on one character and on a text
CharLower(c) ==
    IF \E i \in 1..26 : UpperCase[i] = c
    THEN LowerCase[CHOOSE i \in 1..26 : UpperCase[i] = c]
    ELSE c

\* (mutant: the lowercasing left out)
StrLowerSkipped(s) == s

StrLower(s) == [i \in 1..Len(s) |-> CharLower(s[i])]

\* str.split(sep)[0]: the text before the first sep, all of it without one
SplitFirst(s, sep) ==
    LET at == {i \in 1..Len(s) : s[i] = sep} IN
    IF at = {} THEN s
    ELSE SubSeq(s, 1, (CHOOSE i \in at : \A j \in at : i <= j) - 1)

PORTAL_DETECTION_PATHS ==
    {
      \* /hotspot-detect.html
      <<"/", "h", "o", "t", "s", "p", "o", "t", "-", "d", "e", "t", "e",
        "c", "t", ".", "h", "t", "m", "l">>,
      \* /library/test/success.html
      <<"/", "l", "i", "b", "r", "a", "r", "y", "/", "t", "e", "s", "t",
        "/", "s", "u", "c", "c", "e", "s", "s", ".", "h", "t", "m", "l">>,
      \* /captive.apple.com
      <<"/", "c", "a", "p", "t", "i", "v", "e", ".", "a", "p", "p", "l",
        "e", ".", "c", "o", "m">>,
      \* /generate_204
      <<"/", "g", "e", "n", "e", "r", "a", "t", "e", "_", "2", "0", "4">>,
      \* /gen_204
      <<"/", "g", "e", "n", "_", "2", "0", "4">>,
      \* /connectivitycheck.gstatic.com
      <<"/", "c", "o", "n", "n", "e", "c", "t", "i", "v", "i", "t", "y",
        "c", "h", "e", "c", "k", ".", "g", "s", "t", "a", "t", "i", "c",
        ".", "c", "o", "m">>,
      \* /connecttest.txt
      <<"/", "c", "o", "n", "n", "e", "c", "t", "t", "e", "s", "t", ".",
        "t", "x", "t">>,
      \* /ncsi.txt
      <<"/", "n", "c", "s", "i", ".", "t", "x", "t">>,
      \* /redirect
      <<"/", "r", "e", "d", "i", "r", "e", "c", "t">>,
      \* /canonical.html
      <<"/", "c", "a", "n", "o", "n", "i", "c", "a", "l", ".", "h", "t",
        "m", "l">>,
      \* /success.txt
      <<"/", "s", "u", "c", "c", "e", "s", "s", ".", "t", "x", "t">>,
      \* /check_network_status.txt
      <<"/", "c", "h", "e", "c", "k", "_", "n", "e", "t", "w", "o", "r",
        "k", "_", "s", "t", "a", "t", "u", "s", ".", "t", "x", "t">>,
      \* /nm-check-status
      <<"/", "n", "m", "-", "c", "h", "e", "c", "k", "-", "s", "t", "a",
        "t", "u", "s">>
    }

\* path.split('?')[0].lower() in PORTAL_DETECTION_PATHS
is_portal_detection_request(path) ==
    StrLower(SplitFirst(path, "?")) \in PORTAL_DETECTION_PATHS

\* ------------------------------------------------------ proxy: requests
\* what a client can make of a path: the forms that keep it the same path
\* up to letter case and query string, and the forms that make another path
CharUpper(c) ==
    IF \E i \in 1..26 : LowerCase[i] = c
    THEN UpperCase[CHOOSE i \in 1..26 : LowerCase[i] = c]
    ELSE c

SameForms == {"exact", "upper", "mixed", "query", "emptyquery", "upperquery",
              "twoqueries"}
OtherForms == {"chopped", "slash", "nested", "longer", "cut", "fragment",
               "doubleslash", "noslash", "semicolon"}

PathOf(base, form) ==
    LET n == Len(base)
        up == [i \in 1..n |-> CharUpper(base[i])]
    IN  CASE form = "exact"       -> base
          [] form = "upper"       -> up
          [] form = "mixed"       ->
                [i \in 1..n |-> IF i % 2 = 0 THEN up[i] ELSE base[i]]
          [] form = "query"       -> base \o <<"?", "a", "=", "1">>
          [] form = "emptyquery"  -> base \o <<"?">>
          [] form = "upperquery"  -> up \o <<"?", "A", "=", "1">>
          [] form = "twoqueries"  -> base \o <<"?", "a", "?", "b">>
          [] form = "chopped"     -> SubSeq(base, 1, n - 1)
          [] form = "slash"       -> base \o <<"/">>
          [] form = "nested"      -> <<"/", "x">> \o base
          [] form = "longer"      -> base \o <<"x">>
          [] form = "cut"         -> SubSeq(base, 1, n - 1) \o <<"?", base[n]>>
          [] form = "fragment"    -> base \o <<"#", "a">>
          [] form = "doubleslash" -> <<"/">> \o base
          [] form = "noslash"     -> SubSeq(base, 2, n)
          [] form = "semicolon"   -> base \o <<";", "a", "=", "1">>

\* paths of the backend's own pages
BackendPaths == {<<"/">>, <<"/", "i", "n", "d", "e", "x", ".", "h", "t", "m", "l">>,
                 <<"/", "a", "p", "i", "/", "n", "e", "t", "w", "o", "r", "k", "s">>}

Methods == {"GET", "HEAD", "POST", "OPTIONS", "PUT", "DELETE", "PATCH"}

\* base and form record how the path was made
Request(m, base, form) ==
    [method |-> m, path |-> PathOf(base, form), base |-> base, form |-> form]

NoRequest == [method |-> "", path |-> <<>>, base |-> <<>>, form |-> ""]

\* a backend response: its status, its headers, and its body named by the
\* number of the upstream request it answers
NoAnswer == [status |-> 0, headers |-> {}, body |-> 0]

\* sent: the requests that went to the backend, in order; first: the
\* backend's response to the first of them; answer: how urlopen ended
\* ("response", "HTTPError", or the fault); final: the response it returned
\* or the HTTPError carries; fault: what reading the body ran into
NoUpstream == [sent |-> <<>>, answer |-> "none", first |-> NoAnswer,
               final |-> NoAnswer, fault |-> "none"]

\* the proxy is not part of the run
ProxyOff ==
    /\ main = "off" /\ attempts = 0 /\ ready = "unknown" /\ backend = "down"
    /\ hpc = "none" /\ req = NoRequest /\ verdict = "none"
    /\ upstream = NoUpstream /\ wire = <<>>

\* ------------------------------------------- startup command: PID file
\* The PID file is written by the process manager of the startup service:
\* the text of its pid, with or without the newline and blanks a shell
\* leaves, or what an interrupted or foreign write leaves.  pid and form
\* record how the text was made.
ManagerPids == {7, 42}

Digits == <<"0", "1", "2", "3", "4", "5", "6", "7", "8", "9">>
IsDigit(c) == \E i \in 1..10 : Digits[i] = c
DigitVal(c) == (CHOOSE i \in 1..10 : Digits[i] = c) - 1

\* str(pid)
RECURSIVE StrOfInt(_)
StrOfInt(n) ==
    IF n < 10 THEN <<Digits[n + 1]>>
    ELSE StrOfInt(n \div 10) \o <<Digits[(n % 10) + 1]>>

GoodForms == {"plain", "newline", "padded"}
BadForms == {"empty", "blank", "garbage", "trailing", "inner"}

PidText(pid, form) ==
    LET t == StrOfInt(pid) IN
    CASE form = "plain"    -> t
      [] form = "newline"  -> t \o <<"\n">>
      [] form = "padded"   -> <<" ">> \o t \o <<" ", "\n">>
      [] form = "empty"    -> <<>>
      [] form = "blank"    -> <<"\n">>
      [] form = "garbage"  -> <<"p", "i", "d">>
      [] form = "trailing" -> t \o <<"x">>
      [] form = "inner"    -> t \o <<" ">> \o t

\* kind: "missing" (no such file), "unreadable" (open or read fails) or
\* "text"
PidFiles ==
    {[kind |-> k, pid |-> 0, form |-> "", text |-> <<>>] :
        k \in {"missing", "unreadable"}}
    \cup {[kind |-> "text", pid |-> p, form |-> f, text |-> PidText(p, f)] :
            p \in ManagerPids, f \in GoodForms \cup BadForms}

\* str.strip(): leading and trailing whitespace removed
WhiteSpace == {" ", "\n", "\t"}
StrStrip(s) ==
    LET at == {i \in 1..Len(s) : s[i] \notin WhiteSpace} IN
    IF at = {} THEN <<>>
    ELSE SubSeq(s, CHOOSE i \in at : \A j \in at : i <= j,
                   CHOOSE i \in at : \A j \in at : i >= j)

\* int(s) on a text without sign: ValueError unless it is one or more digits
RECURSIVE DigitsValue(_)
DigitsValue(s) ==
    IF s = <<>> THEN 0
    ELSE DigitsValue(SubSeq(s, 1, Len(s) - 1)) * 10 + DigitVal(s[Len(s)])

IntOf(s) ==
    IF Len(s) > 0 /\ \A i \in 1..Len(s) : IsDigit(s[i])
    THEN [ok |-> TRUE, n |-> DigitsValue(s)]
    ELSE [ok |-> FALSE, n |-> 0]

\* the response of handle_save_startup
NoSaveResp == [status |-> 0, success |-> FALSE, service_active |-> FALSE,
               config_reloaded |-> FALSE]

\* the startup controller is not part of the run
SaveOff ==
    /\ config = "missing" /\ pidfile = [kind |-> "missing", pid |-> 0, form |-> "", text |-> <<>>]
    /\ manager = [p \in ManagerPids |-> "gone"]
    /\ vpc = "off" /\ hups = <<>> /\ vresp = NoSaveResp

\* ------------------------------------------------------------------- Init
SupInit(e) ==
    /\ env = e
    /\ procs = [p \in e.pids |-> FreeProc]
    /\ files = {}
    /\ sinks = {}
    /\ registry = <<>>
    /\ srv = "serving"
    /\ pc = "idle"
    /\ cur = NoReq
    /\ resp = NoResp
    /\ gone = {}
    /\ reaped5 = FALSE

InitOf(e) == SupInit(e) /\ ProxyOff /\ SaveOff

Init == InitOf(DetailEnv)
InitCap == InitOf(CapEnv)

\* ---------------------------------------------------------------- helpers
Done(r) == pc' = "done" /\ resp' = r /\ cur' = NoReq

Insert(reg, id, h) ==
    [i \in (DOMAIN reg) \cup {id} |-> IF i = id THEN h ELSE reg[i]]

\* (mutant: the del statement forgotten)
RemoveForgotten(reg, id) == reg

\* del TEST_PROCESSES[pid_str]
Remove(reg, id) ==
    IF (DOMAIN reg) \ {id} = {} THEN <<>>
    ELSE [i \in (DOMAIN reg) \ {id} |-> reg[i]]

\* the handle object is shared by the registry and the handler's proc_info
SyncHandle(reg, id, h) ==
    IF id \in DOMAIN reg THEN [reg EXCEPT ![id] = h] ELSE reg

\* tempfile.NamedTemporaryFile(delete=False): a name not in use
UnusedNames == (1..env.nfiles) \ files
FreshName == CHOOSE f \in UnusedNames : \A g \in UnusedNames : f <= g

\* subprocess._cleanup(), run by every Popen(): reaps the exited children
\* whose Popen object was dropped unreaped
ReapDropped(ps, reg) ==
    [p \in DOMAIN ps |->
        IF ps[p].st = "zombie" /\ p \notin DOMAIN reg THEN Reaped(ps[p]) ELSE ps[p]]

\* the pid the OS gives the new child: any free one; where the environment
\* treats pids as interchangeable, the lowest free one stands for all
OsPidChoice(free) ==
    IF env.anyPid THEN free ELSE {p \in free : \A q \in free : p <= q}

\* ------------------------------------------- spawn: handle_test_command
\* (mutant: the concurrency limit never applies)
AtCapacityIgnored(n) == FALSE

\* (mutant: the limit tested with > instead of >=)
AtCapacityOffByOne(n) == n > MaxTestProcesses

\* if len(TEST_PROCESSES) >= 5
AtCapacity(n) == n >= MaxTestProcesses

\* (mutant: the length limit off by one)
TooLongOffByOne(n) == n > MaxCommandLen + 1

\* if len(command) > 4096, on the stripped command
TooLong(n) == n > MaxCommandLen

\* json.loads, the emptiness test, strip(), the length limit, the
\* concurrency limit and the creation of the output file
SpawnCheck(c) ==
    /\ srv = "serving" /\ pc = "idle"
    /\ UNCHANGED <<proxyVars, saveVars, env, procs, sinks, registry, srv, gone>>
    /\ LET r(st, e) == [Reply("spawn", 0, st) EXCEPT !.error = e] IN
       IF ~c.json THEN
            Done(r(400, "Invalid JSON")) /\ UNCHANGED <<files, reaped5>>
       ELSE IF RawLen(c) = 0 THEN
            Done(r(400, "No command provided")) /\ UNCHANGED <<files, reaped5>>
       ELSE IF TooLong(StripLen(c)) THEN
            Done(r(400, "Command too long (max 4096 chars)"))
                /\ UNCHANGED <<files, reaped5>>
       ELSE IF AtCapacity(Cardinality(Ids)) THEN
            Done(r(429, "Too many test processes running"))
                /\ UNCHANGED <<files, reaped5>>
       ELSE \/ /\ UnusedNames = {}
               /\ Done(r(500, "")) /\ UNCHANGED <<files, reaped5>>
            \/ /\ UnusedNames # {}
               /\ files' = files \cup {FreshName}
               /\ pc' = "s_popen"
               /\ cur' = [NoReq EXCEPT !.op = "spawn", !.len = StripLen(c),
                                       !.h = NewHandle(FreshName)]
               /\ UNCHANGED <<resp, reaped5>>

\* open(output_filename, 'w') and subprocess.Popen(..., preexec_fn=os.setsid)
SpawnPopen ==
    /\ srv = "serving" /\ pc = "s_popen"
    /\ UNCHANGED <<proxyVars, saveVars, env, files, registry, srv, gone, reaped5>>
    /\ LET ps == ReapDropped(procs, registry)
           free == {p \in Pids : ps[p].st = "free"}
       IN  \/ /\ env.faults \/ free = {}
              /\ procs' = ps
              /\ Done(Reply("spawn", 0, 500))
              /\ UNCHANGED sinks
           \/ \E pid \in OsPidChoice(free), k \in env.kinds :
                /\ procs' = [ps EXCEPT ![pid] = NewProc(k)]
                /\ sinks' = sinks \cup {cur.h.file}
                /\ pc' = "s_insert"
                /\ cur' = [cur EXCEPT !.id = pid]
                /\ UNCHANGED resp

\* TEST_PROCESSES[str(process.pid)] = {...} and the 200 response
SpawnInsert ==
    /\ srv = "serving" /\ pc = "s_insert"
    /\ registry' = Insert(registry, cur.id, cur.h)
    /\ Done(Reply("spawn", cur.id, 200))
    /\ UNCHANGED <<proxyVars, saveVars, env, procs, files, sinks, srv, gone, reaped5>>

\* (mutant: an unknown id answered as a success)
NotFoundAsSuccess(op, id) == Done(Reply(op, id, 200))

\* if pid_str not in TEST_PROCESSES: 404 'Process not found', return
NotFound(op, id) == Done(Reply(op, id, 404))

\* --------------------------------------------- poll: handle_test_output
\* the lookup and the read of the output file
PollRead(id) ==
    /\ srv = "serving" /\ pc = "idle"
    /\ UNCHANGED <<proxyVars, saveVars, env, procs, files, sinks, registry, srv, gone, reaped5>>
    /\ IF id \notin Ids THEN NotFound("poll", id)
       ELSE LET h == registry[id]
                there == h.file \in files
            IN  IF there /\ procs[id].kind = "binary" /\ procs[id].out > 0
                THEN \* UnicodeDecodeError out of f.read()
                     Done(Reply("poll", id, 500))
                ELSE /\ pc' = "p_poll"
                     /\ cur' = [NoReq EXCEPT !.op = "poll", !.id = id, !.h = h,
                                  !.out = IF there THEN procs[id].out ELSE 0]
                     /\ UNCHANGED resp

\* process.poll(), the response, and the clean-up if the process ended
PollStatus ==
    /\ srv = "serving" /\ pc = "p_poll"
    /\ UNCHANGED <<proxyVars, saveVars, env, srv>>
    /\ LET q == PopenPoll(cur.h, procs[cur.id])
           r == [Reply("poll", cur.id, 200) EXCEPT !.running = (q.h.rc = {}),
                                                   !.code = q.h.rc, !.out = cur.out]
       IN  /\ procs' = [procs EXCEPT ![cur.id] = q.p]
           /\ IF q.h.rc = {}
              THEN /\ Done(r)
                   /\ UNCHANGED <<files, sinks, registry, gone, reaped5>>
              ELSE /\ sinks' = sinks \ {cur.h.file}
                   /\ files' = files \ {cur.h.file}
                   /\ IF cur.id \in Ids
                      THEN /\ registry' = Remove(SyncHandle(registry, cur.id, q.h), cur.id)
                           /\ gone' = Removed(cur.id)
                           /\ reaped5' = (reaped5 \/ Cardinality(Ids) = MaxTestProcesses)
                           /\ Done(r)
                      ELSE \* KeyError out of del
                           /\ Done(Reply("poll", cur.id, 500))
                           /\ UNCHANGED <<registry, gone, reaped5>>

\* ------------------------------------------ terminate: handle_stop_test
StopReq(id, h) == [NoReq EXCEPT !.op = "stop", !.id = id, !.h = h]

\* the except clause entered when a killpg raised (or SystemExit was
\* raised in the try block): process.terminate(), then time.sleep(1)
EnterFallback(id, h, ps, reg) ==
    LET s == PopenSignal(h, ps[id], SIGTERM) IN
    /\ procs' = [ps EXCEPT ![id] = s.p]
    /\ registry' = SyncHandle(reg, id, s.h)
    /\ IF s.ok
       THEN pc' = "f_sleep" /\ cur' = StopReq(id, s.h) /\ UNCHANGED resp
       ELSE \* PermissionError leaves the except clause: the outer handler
            Done(Reply("stop", id, 500))

\* close the handle, unlink the file, del TEST_PROCESSES[pid_str], respond
StopCleanup(id, h, ps) ==
    /\ procs' = ps
    /\ sinks' = sinks \ {h.file}
    /\ files' = files \ {h.file}
    /\ IF id \in Ids
       THEN /\ registry' = Remove(SyncHandle(registry, id, h), id)
            /\ gone' = Removed(id)
            /\ Done(Reply("stop", id, 200))
       ELSE \* KeyError out of del
            /\ Done(Reply("stop", id, 500))
            /\ UNCHANGED <<registry, gone>>

\* the lookup and os.killpg(os.getpgid(pid), SIGTERM); then time.sleep(1)
StopSignal(id) ==
    /\ srv = "serving" /\ pc = "idle"
    /\ UNCHANGED <<proxyVars, saveVars, env, files, sinks, srv, gone, reaped5>>
    /\ IF id \notin Ids
       THEN NotFound("stop", id) /\ UNCHANGED <<procs, registry>>
       ELSE LET k == KillPg(procs[id], SIGTERM) IN
            IF k.ok
            THEN /\ procs' = [procs EXCEPT ![id] = k.p]
                 /\ pc' = "t_sleep"
                 /\ cur' = StopReq(id, registry[id])
                 /\ UNCHANGED <<resp, registry>>
            ELSE EnterFallback(id, registry[id], procs, registry)

\* after the sleep: if process.poll() is None: os.killpg(..., SIGKILL)
StopCheck ==
    /\ srv = "serving" /\ pc = "t_sleep"
    /\ UNCHANGED <<proxyVars, saveVars, env, srv, reaped5>>
    /\ LET q == PopenPoll(cur.h, procs[cur.id])
           k == KillPg(q.p, SIGKILL)
       IN  IF q.h.rc # {}
           THEN StopCleanup(cur.id, q.h, [procs EXCEPT ![cur.id] = q.p])
           ELSE IF k.ok
           THEN StopCleanup(cur.id, q.h, [procs EXCEPT ![cur.id] = k.p])
           ELSE /\ EnterFallback(cur.id, q.h, procs, registry)
                /\ UNCHANGED <<files, sinks, gone>>

\* the except clause after its sleep: if process.poll() is None: process.kill()
StopFallbackCheck ==
    /\ srv = "serving" /\ pc = "f_sleep"
    /\ UNCHANGED <<proxyVars, saveVars, env, srv, reaped5>>
    /\ LET q == PopenPoll(cur.h, procs[cur.id])
           s == PopenSignal(q.h, q.p, SIGKILL)
       IN  IF q.h.rc # {}
           THEN StopCleanup(cur.id, q.h, [procs EXCEPT ![cur.id] = q.p])
           ELSE IF s.ok
           THEN StopCleanup(cur.id, s.h, [procs EXCEPT ![cur.id] = s.p])
           ELSE /\ procs' = procs
                /\ Done(Reply("stop", cur.id, 500))
                /\ UNCHANGED <<files, sinks, registry, gone>>

\* ------------------------------------- drainAll: cleanup_test_processes
\* one registry entry: if process.poll() is None: killpg(SIGTERM), any
\* exception swallowed
DrainOne(h, p) ==
    LET q == PopenPoll(h, p) IN
    IF q.h.rc = {} THEN [h |-> q.h, p |-> KillPg(q.p, SIGTERM).p] ELSE q

\* (mutant: the os.unlink of the output files left out)
CleanupWithoutUnlink(reg, ps, fs, sk) ==
    LET d == [id \in DOMAIN reg |-> DrainOne(reg[id], ps[id])]
        owned == {reg[id].file : id \in DOMAIN reg}
    IN  [hs |-> [id \in DOMAIN reg |-> d[id].h],
         procs |-> [p \in DOMAIN ps |-> IF p \in DOMAIN reg THEN d[p].p ELSE ps[p]],
         files |-> fs,
         sinks |-> sk \ owned,
         registry |-> <<>>]

CleanupTestProcesses(reg, ps, fs, sk) ==
    LET d == [id \in DOMAIN reg |-> DrainOne(reg[id], ps[id])]
        owned == {reg[id].file : id \in DOMAIN reg}
    IN  [hs |-> [id \in DOMAIN reg |-> d[id].h],
         procs |-> [p \in DOMAIN ps |-> IF p \in DOMAIN reg THEN d[p].p ELSE ps[p]],
         files |-> fs \ owned,
         sinks |-> sk \ owned,
         registry |-> <<>>]

\* SIGTERM or SIGINT reaches the server: signal_handler runs
\* cleanup_test_processes() and raises SystemExit in the interrupted frame.
\* In the try block of handle_stop_test (the grace sleep) the bare except
\* catches it and the handler goes on; anywhere else it unwinds
\* serve_forever, whose finally clause drains once more, and the process ends.
Signal ==
    /\ srv = "serving"
    /\ UNCHANGED <<proxyVars, saveVars, env>>
    /\ LET d == CleanupTestProcesses(registry, procs, files, sinks) IN
       /\ files' = d.files
       /\ IF pc = "t_sleep"
          THEN /\ EnterFallback(cur.id,
                                IF cur.id \in Ids THEN d.hs[cur.id] ELSE cur.h,
                                d.procs, d.registry)
               /\ sinks' = d.sinks
               /\ UNCHANGED <<srv, gone, reaped5>>
          ELSE \* the process ends: its memory and its open files go with it
               /\ procs' = d.procs
               /\ registry' = d.registry
               /\ srv' = "exited"
               /\ sinks' = {}
               /\ pc' = "exit" /\ cur' = NoReq /\ resp' = NoResp
               /\ gone' = {} /\ reaped5' = FALSE

\* ------------------------------------------------- supervised processes
\* a supervised process exits, its surviving child exits, or the group
\* writes a chunk to its output file
ProcStep(pid) ==
    /\ srv = "serving"
    /\ procs[pid].st # "free"
    /\ UNCHANGED <<proxyVars, saveVars, env, files, sinks, registry, srv, pc, cur, resp, gone, reaped5>>
    /\ LET p == procs[pid] IN
       \/ /\ p.st = "run"
          /\ \E c \in env.codes :
                procs' = [procs EXCEPT ![pid] = [p EXCEPT !.st = "zombie", !.rc = c]]
       \/ /\ p.kids
          /\ procs' = [procs EXCEPT ![pid] = Norm([p EXCEPT !.kids = FALSE])]
       \/ /\ p.st = "run" \/ p.kids
          /\ p.out < env.maxOut
          /\ procs' = [procs EXCEPT ![pid] = [p EXCEPT !.out = p.out + 1]]

\* the response has been written; the server accepts the next request
Finish ==
    /\ srv = "serving" /\ pc = "done"
    /\ pc' = "idle" /\ resp' = NoResp
    /\ reaped5' = (reaped5 /\ resp.op # "spawn")
    /\ UNCHANGED <<proxyVars, saveVars, env, procs, files, sinks, registry, srv, cur, gone>>

Next ==
    \/ \E c \in Commands : SpawnCheck(c)
    \/ SpawnPopen
    \/ SpawnInsert
    \/ \E id \in Pids : PollRead(id)
    \/ PollStatus
    \/ \E id \in Pids : StopSignal(id)
    \/ StopCheck
    \/ StopFallbackCheck
    \/ Signal
    \/ \E pid \in Pids : ProcStep(pid)
    \/ Finish

Spec == Init /\ [][Next]_vars
SpecCap == InitCap /\ [][Next]_vars

\* ===================================================== proxy: classify
\* classify of the spec: is_portal_detection_request applied to one path
ClassifyInputs ==
    {Request("GET", b, f) :
        b \in PORTAL_DETECTION_PATHS \cup BackendPaths,
        f \in SameForms \cup OtherForms}

InitClassify ==
    /\ SupInit(DetailEnv)
    /\ main = "off" /\ attempts = 0 /\ ready = "unknown" /\ backend = "down"
    /\ hpc = "none" /\ req \in ClassifyInputs /\ verdict = "none"
    /\ upstream = NoUpstream /\ wire = <<>>
    /\ SaveOff

Classify ==
    /\ main = "off" /\ verdict = "none" /\ req # NoRequest
    /\ verdict' = IF is_portal_detection_request(req.path)
                  THEN "Intercept" ELSE "Passthrough"
    /\ UNCHANGED <<supVars, saveVars, main, attempts, ready, backend, hpc, req, upstream,
                   wire>>

NextClassify == Classify

SpecClassify == InitClassify /\ [][NextClassify]_vars

\* ====================================================== proxy: the edge
\* captive-portal-proxy.py: main() probes the backend, creates the
\* ThreadedHTTPServer and serves; every connection gets a handler thread.
\* Handler threads share no state, so one connection at a time is followed.
\* A write to the client either succeeds or fails with EPIPE
\* (BrokenPipeError) or ECONNRESET (ConnectionResetError); once one has
\* failed the client is gone and every later write fails.
REDIRECT_TARGET == "/"

H(n, v) == [name |-> n, value |-> v]

\* BaseHTTPRequestHandler.send_response stamps these on every response
LibHeaders == {H("Server", "BaseHTTP"), H("Date", "now")}

\* what the handler wrote, or tried to write, to the client:
\* a status line with its headers; a body; send_error's status line,
\* headers and error page
HeadWrite(st, hs, r) == [kind |-> "head", status |-> st,
                         headers |-> hs \cup LibHeaders,
                         body |-> 0, res |-> r]
BodyWrite(b, r) == [kind |-> "body", status |-> 0, headers |-> {}, body |-> b, res |-> r]
ErrorWrite(st, r) ==
    [kind |-> "error", status |-> st,
     headers |-> {H("Connection", "close"), H("Content-Type", "text/html")}
                    \cup LibHeaders,
     body |-> 0, res |-> r]

ClientGone(w) == \E i \in 1..Len(w) : w[i].res # "ok"

WriteResults(w) == IF ClientGone(w) THEN {"EPIPE"} ELSE {"ok", "EPIPE", "ECONNRESET"}

\* the requests a client sends while the proxy serves
ProxyPaths ==
    {PathOf(b, f) : b \in {<<"/", "g", "e", "n", "_", "2", "0", "4">>},
                    f \in {"exact", "upperquery", "chopped"}}
        \cup {<<"/">>}

ProxyRequests ==
    {[method |-> m, path |-> q, base |-> q, form |-> "exact"] :
        m \in Methods, q \in ProxyPaths}

InitProxy ==
    /\ SupInit(DetailEnv)
    /\ main = "probe" /\ attempts = 0 /\ ready = "unknown"
    /\ backend \in {"down", "up"}
    /\ hpc = "none" /\ req = NoRequest /\ verdict = "none"
    /\ upstream = NoUpstream /\ wire = <<>>
    /\ SaveOff

handlerVars == <<hpc, req, verdict, upstream, wire>>
mainVars == <<main, attempts, ready>>

\* WiFi Connect starts or stops listening on port 8080
BackendChange ==
    /\ main \in {"probe", "create", "serve", "shutdown"}
    /\ backend' = IF backend = "up" THEN "down" ELSE "up"
    /\ UNCHANGED <<supVars, saveVars, mainVars, handlerVars>>

\* ------------------------------------------------- proxy: the backend
HeaderLower(n) ==
    CASE n = "Connection" -> "connection"
      [] n = "Transfer-Encoding" -> "transfer-encoding"
      [] n = "Content-Encoding" -> "content-encoding"
      [] n = "Content-Type" -> "content-type"
      [] n = "Location" -> "location"
      [] OTHER -> n

PlainHeaders == {H("Content-Type", "text/html")}
HopHeaders == PlainHeaders \cup {H("Connection", "keep-alive"),
                                 H("Transfer-Encoding", "chunked"),
                                 H("Content-Encoding", "gzip")}
LocationHeader == H("Location", "/setup")

\* what WiFi Connect may answer to a request
BackendAnswers(n) ==
    [status : {200, 404}, headers : {PlainHeaders, HopHeaders}, body : {n}]
        \cup [status : {302},
              headers : {PlainHeaders \cup {LocationHeader},
                         HopHeaders \cup {LocationHeader}},
              body : {n}]

\* HTTPRedirectHandler of urlopen's default opener: a 3xx with a Location
\* header is followed for GET, HEAD and POST, by a GET of the new URL
Redirected(m, a) ==
    /\ a.status \in {301, 302, 303}
    /\ \E h \in a.headers : HeaderLower(h.name) = "location"
    /\ m \in {"GET", "HEAD", "POST"}

\* HTTPErrorProcessor: a final status outside 2xx is raised as HTTPError
AnswerKind(a) == IF a.status >= 200 /\ a.status < 300 THEN "response" ELSE "HTTPError"

\* the status send_error gets for each except clause of proxy_request
ErrorStatus(f) ==
    CASE f = "URLError" -> 502
      [] f = "timeout" -> 504
      [] OTHER -> 502

\* the header copy loops of proxy_request
ResponseFilter == {"connection", "transfer-encoding", "content-encoding"}
ErrorFilter == {"connection", "transfer-encoding"}
CopyHeaders(hs, drop) == {h \in hs : HeaderLower(h.name) \notin drop}

\* ------------------------------------------------- proxy: main thread
\* check_wifi_connect_available(): connect_ex(...) == 0
check_wifi_connect_available == backend = "up"

\* (mutant: the loop makes one attempt too many)
MoreAttemptsOffByOne(n) == n <= MaxAttempts

\* for attempt in range(max_attempts)
MoreAttempts(n) == n < MaxAttempts

\* one turn of the loop of wait_for_wifi_connect: a connect attempt, and
\* either return True or sleep(delay)
ProbeAttempt ==
    /\ main = "probe" /\ MoreAttempts(attempts)
    /\ attempts' = attempts + 1
    /\ IF check_wifi_connect_available
       THEN main' = "create" /\ ready' = "yes"
       ELSE UNCHANGED <<main, ready>>
    /\ UNCHANGED <<supVars, saveVars, backend, handlerVars>>

\* the loop is over: the warning, return False
ProbeExhausted ==
    /\ main = "probe" /\ ~MoreAttempts(attempts)
    /\ main' = "create" /\ ready' = "no"
    /\ UNCHANGED <<supVars, saveVars, attempts, backend, handlerVars>>

\* ThreadedHTTPServer(('', LISTEN_PORT), ...) binds, the signal handlers are
\* installed, serve_forever() starts
ServerStart ==
    /\ main = "create"
    /\ main' = "serve"
    /\ UNCHANGED <<supVars, saveVars, attempts, ready, backend, handlerVars>>

\* the bind fails (PermissionError, address in use): sys.exit(1)
ServerBindFails ==
    /\ main = "create"
    /\ main' = "exit1"
    /\ UNCHANGED <<supVars, saveVars, attempts, ready, backend, handlerVars>>

\* SIGTERM or SIGINT reaches the proxy.  Before the handlers are installed
\* it ends the process.  While serve_forever runs, shutdown_handler runs on
\* top of it in the main thread and calls server.shutdown(), which waits
\* for serve_forever to leave its loop.
ProxySignal ==
    /\ main \in {"probe", "create", "serve"}
    /\ main' = IF main = "serve" THEN "shutdown" ELSE "killed"
    /\ UNCHANGED <<supVars, saveVars, attempts, ready, backend, handlerVars>>

\* --------------------------------------------- proxy: handler thread
\* serve_forever accepts a connection and starts its handler thread, which
\* reads the request line and headers
Accept ==
    /\ main = "serve" /\ hpc = "none"
    /\ \E r \in ProxyRequests : req' = r
    /\ hpc' = "dispatch"
    /\ UNCHANGED <<supVars, saveVars, mainVars, backend, verdict, upstream, wire>>

\* the handler thread is over and its connection closed
HandlerEnd ==
    /\ hpc \in {"returned", "raised"}
    /\ hpc' = "none" /\ req' = NoRequest /\ verdict' = "none"
    /\ upstream' = NoUpstream /\ wire' = <<>>
    /\ UNCHANGED <<supVars, saveVars, mainVars, backend>>

\* the handler's end after a write: an exception nobody catches ends it
\* abnormally
AfterWrite(r) == IF r = "ok" THEN "returned" ELSE "raised"

\* (mutant: do_POST checks for a detection path as do_GET does)
ClassifyingMethodsWithPost == {"GET", "HEAD", "POST"}

\* the do_ methods that call is_portal_detection_request
ClassifyingMethods == {"GET", "HEAD"}

\* handle_one_request: do_GET and do_HEAD classify the path; do_POST reads
\* the body and proxies, do_OPTIONS proxies; a method without a do_ method
\* is answered send_error(501)
Dispatch ==
    /\ hpc = "dispatch"
    /\ UNCHANGED <<supVars, saveVars, mainVars, backend, req, upstream>>
    /\ IF req.method \in ClassifyingMethods THEN
            /\ verdict' = IF is_portal_detection_request(req.path)
                          THEN "Intercept" ELSE "Passthrough"
            /\ hpc' = IF is_portal_detection_request(req.path)
                      THEN "redirect" ELSE "urlopen"
            /\ UNCHANGED wire
       ELSE IF req.method \in {"POST", "OPTIONS"} THEN
            /\ hpc' = "urlopen"
            /\ UNCHANGED <<verdict, wire>>
       ELSE \E r \in WriteResults(wire) :
                /\ wire' = Append(wire, ErrorWrite(501, r))
                /\ hpc' = AfterWrite(r)
                /\ UNCHANGED verdict

\* (mutant: the Content-Length header left out)
RedirectWithoutLength ==
    {H("Location", REDIRECT_TARGET),
     H("Cache-Control", "no-cache, no-store, must-revalidate")}

\* the headers handle_portal_detection sends after send_response(302)
RedirectHeaders ==
    {H("Location", REDIRECT_TARGET),
     H("Cache-Control", "no-cache, no-store, must-revalidate"),
     H("Content-Length", "0")}

\* handle_portal_detection: the 302 with its headers, written by
\* end_headers(); BrokenPipeError is caught, any other error is not
handle_portal_detection ==
    /\ hpc = "redirect"
    /\ \E r \in WriteResults(wire) :
            /\ wire' = Append(wire, HeadWrite(302, RedirectHeaders, r))
            /\ hpc' = IF r = "ECONNRESET" THEN "raised" ELSE "returned"
    /\ UNCHANGED <<supVars, saveVars, mainVars, backend, req, verdict, upstream>>

\* proxy_request up to urlopen(req, timeout=30).  A refused connection and
\* a connect that times out arrive as URLError; a backend that accepts and
\* sends no response within the timeout raises socket.timeout; a broken
\* response raises an HTTPException.  Each fault goes to its except clause
\* and send_error.
Urlopen ==
    /\ hpc = "urlopen"
    /\ UNCHANGED <<supVars, saveVars, mainVars, backend, req, verdict>>
    /\ LET orig == [method |-> req.method, path |-> req.path]
           next == [method |-> "GET", path |-> <<"/", "s", "e", "t", "u", "p">>]
           fail(f) ==
                /\ upstream' = [NoUpstream EXCEPT !.sent = <<orig>>, !.answer = f]
                /\ \E r \in WriteResults(wire) :
                        /\ wire' = Append(wire, ErrorWrite(ErrorStatus(f), r))
                        /\ hpc' = AfterWrite(r)
           got(sent, a, b) ==
                /\ upstream' = [NoUpstream EXCEPT !.sent = sent, !.first = a,
                                    !.final = b, !.answer = AnswerKind(b)]
                /\ hpc' = IF AnswerKind(b) = "response" THEN "relay" ELSE "relay_error"
                /\ UNCHANGED wire
       IN  \/ backend = "down" /\ fail("URLError")
           \/ backend = "up" /\ \E f \in {"URLError", "timeout", "HTTPException"} : fail(f)
           \/ /\ backend = "up"
              /\ \E a \in BackendAnswers(1) :
                    IF Redirected(req.method, a)
                    THEN \E b \in {x \in BackendAnswers(2) : x.status # 302} :
                            got(<<orig, next>>, a, b)
                    ELSE got(<<orig>>, a, a)

\* send_error from the except clauses of the try block after a fault that
\* is not BrokenPipeError
SendErrorAndEnd(st) ==
    \E r \in WriteResults(wire) :
        /\ wire' = Append(wire, ErrorWrite(st, r))
        /\ hpc' = AfterWrite(r)

\* what a failed write in the try block leads to: BrokenPipeError is
\* passed over, ConnectionResetError goes to except Exception and its
\* send_error(502), which fails on the lost connection
FailedWrite(w) ==
    IF w[Len(w)].res = "EPIPE"
    THEN wire' = w /\ hpc' = "returned"
    ELSE wire' = Append(w, ErrorWrite(502, "EPIPE")) /\ hpc' = "raised"

\* a response to HEAD has no body to read; a redirect that was followed
\* ends in the response to a GET
HasBody(u) == u.sent[Len(u.sent)].method # "HEAD"

\* send_response(response.getcode()), the copied headers, end_headers()
RelayHead ==
    /\ hpc = "relay"
    /\ UNCHANGED <<supVars, saveVars, mainVars, backend, req, verdict, upstream>>
    /\ \E r \in WriteResults(wire) :
        LET w == Append(wire, HeadWrite(upstream.final.status,
                            CopyHeaders(upstream.final.headers, ResponseFilter), r))
        IN  IF r = "ok" THEN wire' = w /\ hpc' = "body" ELSE FailedWrite(w)

\* self.wfile.write(response.read()): the read of the body may time out or
\* find the connection closed early
RelayBody ==
    /\ hpc = "body"
    /\ UNCHANGED <<supVars, saveVars, mainVars, backend, req, verdict>>
    /\ \/ /\ UNCHANGED upstream
          /\ IF ~HasBody(upstream)
             THEN wire' = wire /\ hpc' = "returned"
             ELSE \E r \in WriteResults(wire) :
                    LET w == Append(wire, BodyWrite(upstream.final.body, r))
                    IN  IF r = "ok" THEN wire' = w /\ hpc' = "returned"
                        ELSE FailedWrite(w)
       \/ /\ HasBody(upstream)
          /\ \E f \in {"timeout", "IncompleteRead"} :
                /\ upstream' = [upstream EXCEPT !.fault = f]
                /\ SendErrorAndEnd(ErrorStatus(f))

\* except urllib.error.HTTPError: send_response(e.code), the copied
\* headers, end_headers(), the write of e.fp.read(); nothing is caught here
RelayError ==
    /\ hpc = "relay_error"
    /\ UNCHANGED <<supVars, saveVars, mainVars, backend, req, verdict>>
    /\ \E r \in WriteResults(wire) :
        LET w == Append(wire, HeadWrite(upstream.final.status,
                            CopyHeaders(upstream.final.headers, ErrorFilter), r))
        IN  IF r # "ok"
            THEN wire' = w /\ hpc' = "raised" /\ UNCHANGED upstream
            ELSE \/ /\ UNCHANGED upstream
                    /\ IF ~HasBody(upstream)
                       THEN wire' = w /\ hpc' = "returned"
                       ELSE \E r2 \in WriteResults(w) :
                                /\ wire' = Append(w, BodyWrite(upstream.final.body, r2))
                                /\ hpc' = AfterWrite(r2)
                 \/ /\ HasBody(upstream)
                    /\ \E f \in {"timeout", "IncompleteRead"} :
                            /\ upstream' = [upstream EXCEPT !.fault = f]
                            /\ wire' = w /\ hpc' = "raised"

NextProxy ==
    \/ BackendChange
    \/ ProbeAttempt
    \/ ProbeExhausted
    \/ ServerStart
    \/ ServerBindFails
    \/ ProxySignal
    \/ Accept
    \/ Dispatch
    \/ handle_portal_detection
    \/ Urlopen
    \/ RelayHead
    \/ RelayBody
    \/ RelayError
    \/ HandlerEnd

\* the threads of the proxy keep running: the main thread through its
\* start-up, a handler thread to its end
ProxyFairness ==
    /\ WF_vars(ProbeAttempt) /\ WF_vars(ProbeExhausted)
    /\ WF_vars(ServerStart \/ ServerBindFails)
    /\ WF_vars(Dispatch) /\ WF_vars(handle_portal_detection)
    /\ WF_vars(Urlopen) /\ WF_vars(RelayHead) /\ WF_vars(RelayBody)
    /\ WF_vars(RelayError)

SpecProxy == InitProxy /\ [][NextProxy]_vars /\ ProxyFairness

\* ============================================ startup command: save
\* handle_save_startup: the command is written to CONFIG_FILE, the process
\* manager named by the PID file is sent SIGHUP, and the response tells
\* whether that happened.
StartupCommands == {"", "chromium"}

\* the request body: JSON with a command, or not JSON
SaveBodies == [json : {TRUE}, command : StartupCommands]
                \cup {[json |-> FALSE, command |-> ""]}

InitSave ==
    /\ SupInit(CapEnv) /\ ProxyOff
    /\ config \in {"missing", "corrupt"} \cup StartupCommands
    /\ pidfile \in PidFiles
    /\ manager \in [ManagerPids -> {"alive", "gone", "foreign"}]
    /\ vpc = "idle" /\ hups = <<>> /\ vresp = NoSaveResp

\* the process manager writes, rewrites or removes its PID file; processes
\* come and go
PidFileChange ==
    /\ vpc = "idle"
    /\ \E f \in PidFiles : f # pidfile /\ pidfile' = f
    /\ UNCHANGED <<supVars, proxyVars, config, manager, vpc, hups, vresp>>

ManagerChange ==
    /\ vpc = "idle"
    /\ \E p \in ManagerPids, st \in {"alive", "gone", "foreign"} :
            manager[p] # st /\ manager' = [manager EXCEPT ![p] = st]
    /\ UNCHANGED <<supVars, proxyVars, config, pidfile, vpc, hups, vresp>>

\* json.loads, the load of the existing config, the update and the dump;
\* whatever is raised here goes to the outer handler and its 500
SaveConfig(d) ==
    /\ vpc = "idle"
    /\ UNCHANGED <<supVars, proxyVars, pidfile, manager, hups>>
    /\ IF ~d.json \/ config = "corrupt"
       THEN /\ vpc' = "done"
            /\ vresp' = [NoSaveResp EXCEPT !.status = 500]
            /\ UNCHANGED config
       ELSE \/ /\ config' = d.command
               /\ vpc' = "reload"
               /\ UNCHANGED vresp
            \/ \* open(CONFIG_FILE, 'w') or the dump fails
               /\ config' \in {config, "corrupt"}
               /\ vpc' = "done"
               /\ vresp' = [NoSaveResp EXCEPT !.status = 500]

\* (mutant: os.kill never raises)
KillNeverRaises(st) == FALSE

\* os.kill(pid, SIGHUP): ProcessLookupError when there is no such process,
\* PermissionError when it belongs to someone else
KillRaises(st) == st # "alive"

\* with open('/run/ossuary/process.pid') ...: pid = int(f.read().strip());
\* os.kill(pid, SIGHUP); service_reloaded = True -- except: False.
\* to: the pid os.kill was called with (0 when it was not called)
ReloadAttempt(pf, mgr) ==
    IF pf.kind # "text" THEN [to |-> 0, service_reloaded |-> FALSE]
    ELSE LET pid == IntOf(StrStrip(pf.text)) IN
         IF ~pid.ok THEN [to |-> 0, service_reloaded |-> FALSE]
         ELSE [to |-> pid.n,
               service_reloaded |->
                    IF pid.n \in DOMAIN mgr THEN ~KillRaises(mgr[pid.n])
                    ELSE FALSE]

\* the reload, systemctl is-active, and the response
SaveReload ==
    /\ vpc = "reload"
    /\ LET a == ReloadAttempt(pidfile, manager) IN
       /\ hups' = IF a.service_reloaded THEN Append(hups, a.to) ELSE hups
       /\ \E active \in BOOLEAN :
            vresp' = [status |-> 200, success |-> TRUE,
                      service_active |-> active,
                      config_reloaded |-> a.service_reloaded]
    /\ vpc' = "done"
    /\ UNCHANGED <<supVars, proxyVars, config, pidfile, manager>>

\* the response has been written; the server accepts the next request
SaveFinish ==
    /\ vpc = "done"
    /\ vpc' = "idle" /\ hups' = <<>> /\ vresp' = NoSaveResp
    /\ UNCHANGED <<supVars, proxyVars, config, pidfile, manager>>

NextSave ==
    \/ PidFileChange
    \/ ManagerChange
    \/ \E d \in SaveBodies : SaveConfig(d)
    \/ SaveReload
    \/ SaveFinish

SpecSave == InitSave /\ [][NextSave]_vars

\* ================================================================ claims
\* a handler ends on this step
Ends(op) == pc # "done" /\ pc' = "done" /\ resp'.op = op

\* the handle a poll or terminate handler works on during this step
HandleOf(id) == IF pc = "idle" THEN registry[id] ELSE cur.h

\* the step ends a terminate whose id was in the Registry when it was looked up
StopFoundEnds == Ends("stop") /\ ~(pc = "idle" /\ resp'.id \notin Ids)

\* a command the spec calls valid: JSON, not empty, at most 4096 characters
ValidCommand(c) == c.json /\ StripLen(c) >= 1 /\ StripLen(c) <= MaxCommandLen

RunningCount == Cardinality({id \in Ids : Running(id)})

\* C1: terminate on an id present in the Registry always closes the sink,
\* deletes the output file, removes the handle and reports success, whichever
\* of its signal/kill calls fail.
C1_TerminateAlwaysCleansUp ==
    [][StopFoundEnds =>
        LET id == resp'.id
            f == HandleOf(id).file
        IN  /\ resp'.status = 200
            /\ id \notin DOMAIN registry'
            /\ f \notin files'
            /\ f \notin sinks']_vars

\* C2: with 5 handles in the Registry a valid spawn is answered 429 and
\* changes nothing; once a poll has reaped one handle of the full Registry,
\* the next valid spawn is accepted, starts its process and registers it
\* with the 200 response.
C2_LimitThenReapThenSpawn ==
    [][/\ \A c \in Commands :
            SpawnCheck(c) /\ ValidCommand(c) =>
                /\ Cardinality(Ids) = MaxTestProcesses =>
                        /\ resp'.status = 429 /\ pc' = "done"
                        /\ UNCHANGED <<registry, files, procs>>
                /\ reaped5 => pc' = "s_popen"
       /\ SpawnPopen /\ reaped5 => pc' = "s_insert"
       /\ SpawnInsert /\ reaped5 =>
            /\ resp'.status = 200
            /\ resp'.id \in DOMAIN registry'
            /\ procs'[resp'.id].st # "free"
            /\ Cardinality(DOMAIN registry') = Cardinality(Ids) + 1]_vars

C2_Witness ==
    /\ pc = "done" /\ resp.op = "spawn" /\ resp.status = 200
    /\ reaped5
    /\ Cardinality(Ids) = MaxTestProcesses

\* C3: a valid spawn is rejected with 429 only when 5 supervised processes
\* are actually running; with fewer than 5 registered processes still
\* running it is accepted.
C3_LimitCountsRunningOnly ==
    [][\A c \in Commands :
            SpawnCheck(c) /\ ValidCommand(c) =>
                /\ resp'.status = 429 => RunningCount >= MaxTestProcesses
                /\ RunningCount < MaxTestProcesses => pc' = "s_popen"]_vars

\* C4: poll on a registered handle whose process has exited returns
\* running=false with that process's exit code and removes the handle,
\* whatever the process wrote; the next poll of the id is answered 404.
C4_PollOfExitedReaps ==
    [][/\ \A id \in Pids :
            PollRead(id) =>
                /\ id \in Ids /\ procs[id].st = "zombie" => pc' = "p_poll"
                /\ id \notin Ids => resp'.status = 404
       /\ PollStatus /\ procs[cur.id].st = "zombie" =>
            /\ resp'.status = 200
            /\ ~resp'.running
            /\ resp'.code = {procs[cur.id].rc}
            /\ cur.id \notin DOMAIN registry']_vars

\* C5: no handle stays in the Registry once its process's exit has been
\* observed: a handle whose returncode is set is in the Registry only while
\* the terminate that saw the exit is still in its fallback wait; every
\* removal of a handle comes with its sink closed and its file deleted, and
\* a file is deleted only by the step that removes its handle (once).
C5_ObservedExitDestroysOnce ==
    /\ [](\A id \in Ids :
            registry[id].rc # {} => pc = "f_sleep" /\ cur.id = id)
    /\ [][/\ \A id \in Ids \ DOMAIN registry' :
                /\ registry[id].file \notin files'
                /\ registry[id].file \notin sinks'
          /\ \A f \in files \ files' :
                \E id \in Ids \ DOMAIN registry' : registry[id].file = f]_vars

C5_Witness ==
    /\ pc = "done" /\ resp.op = "poll" /\ resp.status = 200
    /\ ~resp.running /\ resp.code # {}
    /\ resp.id \notin Ids

\* C6: once poll or terminate has removed an id from the Registry, every
\* later poll or terminate on that id is answered 404, whatever spawns
\* happen in between.
C6_NotFoundIsPermanent ==
    [][(Ends("poll") \/ Ends("stop")) /\ resp'.id \in gone =>
            resp'.status = 404]_vars

\* C7: for a command that ignores the graceful signal, when terminate
\* returns every process of the group is gone (the forceful kill went to the
\* group because some process of it was still alive after the grace
\* interval), the handle is removed and success is reported.
C7_TerminateKillsWholeGroup ==
    [][StopFoundEnds /\ procs[resp'.id].kind \in {"stubborn", "orphaning"}
                     /\ procs[resp'.id].st # "free" =>
            /\ resp'.status = 200
            /\ resp'.id \notin DOMAIN registry'
            /\ procs'[resp'.id].st # "run"
            /\ ~procs'[resp'.id].kids]_vars

\* C8: after drainAll, from any Registry state, the Registry is empty, no
\* handle is running, and every output file (and sink) that belonged to a
\* registered handle is deleted (closed).
C8_DrainAllEmptiesRegistry ==
    [][Signal =>
            /\ DOMAIN registry' = {}
            /\ Cardinality({id \in DOMAIN registry' : procs'[id].st = "run"}) = 0
            /\ \A id \in Ids :
                    /\ registry[id].file \notin files'
                    /\ registry[id].file \notin sinks']_vars

\* the server has exited and a process is left dead of the SIGTERM that only
\* drainAll sends without reaping
C8_Witness ==
    /\ srv = "exited"
    /\ registry = <<>>
    /\ \E p \in Pids : procs[p].st = "zombie" /\ procs[p].rc = -SIGTERM

\* C9: whenever the server exits on SIGTERM/SIGINT, no command started by
\* spawn is left unsignalled and no output file created by spawn remains,
\* wherever in request handling the signal arrived.
C9_ExitLeavesNothingBehind ==
    srv = "exited" =>
        /\ files = {}
        /\ \A p \in Pids : (procs[p].st = "run" \/ procs[p].kids) => procs[p].sig

\* C10: while a terminate waits out its grace interval, a spawn, and a poll
\* or terminate for a different handle, can be served.
C10_GraceWaitDoesNotSerialize ==
    pc \in {"t_sleep", "f_sleep"} =>
        /\ ENABLED (\E c \in Commands : SpawnCheck(c))
        /\ \A id \in Pids \ {cur.id} :
                (ENABLED PollRead(id)) /\ (ENABLED StopSignal(id))

\* C11 (as stated): spawn with empty command text or with text longer than
\* 4096 characters is answered 400, starts no process, creates no output
\* file and leaves the Registry unchanged.
C11_EmptyOrLongTextRejected ==
    [][\A c \in Commands :
            SpawnCheck(c) /\ c.json /\ (RawLen(c) = 0 \/ RawLen(c) > MaxCommandLen) =>
                /\ pc' = "done" /\ resp'.status = 400
                /\ UNCHANGED <<procs, files, sinks, registry>>]_vars

\* C11 (amended): spawn with empty command text, or with text that is still
\* longer than 4096 characters once its surrounding whitespace is stripped,
\* is answered 400, starts no process, creates no output file and leaves the
\* Registry unchanged.
C11_EmptyOrLongStrippedRejected ==
    [][\A c \in Commands :
            SpawnCheck(c) /\ c.json /\ (RawLen(c) = 0 \/ StripLen(c) > MaxCommandLen) =>
                /\ pc' = "done" /\ resp'.status = 400
                /\ UNCHANGED <<procs, files, sinks, registry>>]_vars

\* a spawn has just been refused as too long while the Registry held a handle
C11_Witness ==
    /\ pc = "done" /\ resp.op = "spawn" /\ resp.status = 400
    /\ resp.error = "Command too long (max 4096 chars)"
    /\ Cardinality(Ids) >= 1

\* C12: after any sequence of spawn, poll, terminate and drainAll requests
\* the Registry never holds more than 5 handles.
C12_RegistryAtMostFive == Cardinality(Ids) <= MaxTestProcesses

\* a spawn has just been refused at 5 handles although the OS had a pid left
C12_Witness ==
    /\ pc = "done" /\ resp.op = "spawn" /\ resp.status = 429
    /\ Cardinality(Ids) = MaxTestProcesses
    /\ \E p \in Pids : procs[p].st = "free"

\* C13: classify returns Intercept exactly when the path, cut at its first
\* '?' and lowercased, is one of the 13 detection paths: each detection path
\* is intercepted in any letter case and with any query string, and every
\* other path (a detection path short of its last character, with a trailing
\* slash, under a prefix, ..., or a page of the backend) is Passthrough.
C13_ClassifyExactNormalizedMatch ==
    /\ Cardinality(PORTAL_DETECTION_PATHS) = 13
    /\ verdict # "none" =>
            (verdict = "Intercept" <=>
                req.base \in PORTAL_DETECTION_PATHS /\ req.form \in SameForms)

\* a detection path in capitals with a query string has been intercepted
C13_Witness ==
    /\ verdict = "Intercept" /\ req.form = "upperquery"
    /\ req.path # req.base

\* the handler thread has ended, one way or the other
HandlerOver == hpc \in {"returned", "raised"}

\* the status lines written to the client, in order
StatusLines(w) == SelectSeq(w, LAMBDA e : e.kind \in {"head", "error"})

\* C14: every Intercept response, for GET and for HEAD, is exactly status
\* 302 with Location: /, Cache-Control: no-cache, no-store, must-revalidate,
\* Content-Length: 0 (beside the Server and Date headers the HTTP library
\* stamps on every response) and an empty body.
C14_InterceptResponseExact ==
    verdict = "Intercept" /\ HandlerOver =>
        /\ req.method \in {"GET", "HEAD"}
        /\ Len(wire) = 1
        /\ wire[1].kind = "head"
        /\ wire[1].status = 302
        /\ wire[1].headers \ LibHeaders =
                {H("Location", "/"),
                 H("Cache-Control", "no-cache, no-store, must-revalidate"),
                 H("Content-Length", "0")}
        /\ wire[1].body = 0

\* a HEAD of a detection path has been answered with the redirect
C14_Witness ==
    /\ verdict = "Intercept" /\ hpc = "returned"
    /\ req.method = "HEAD"
    /\ Len(wire) = 1 /\ wire[1].res = "ok" /\ wire[1].status = 302

\* C15: every request on the proxy listener that is not intercepted,
\* whatever its method (GET, HEAD, POST, OPTIONS, PUT, DELETE, PATCH), is
\* forwarded to the backend with its original method and path.
C15_EveryMethodForwarded ==
    HandlerOver /\ verdict # "Intercept" =>
        /\ Len(upstream.sent) >= 1
        /\ upstream.sent[1] = [method |-> req.method, path |-> req.path]

\* C16: a Passthrough request that runs into a fault is answered with
\* exactly one status: 502 when the backend is unreachable, 504 when the
\* backend exceeds the timeout, 502 for any other forwarding fault; and no
\* failed request is sent again.
C16_FaultsMapToOneStatus ==
    LET f == IF upstream.answer \in {"URLError", "timeout", "HTTPException"}
             THEN upstream.answer ELSE upstream.fault
    IN  hpc = "returned" /\ f # "none" /\ ~ClientGone(wire) =>
            /\ Len(StatusLines(wire)) = 1
            /\ StatusLines(wire)[1].status = IF f = "timeout" THEN 504 ELSE 502
            /\ Len(upstream.sent) = 1

\* C17: for every response the backend gives to a Passthrough request,
\* whatever its status, the status and body the proxy returns to the client
\* are the backend's status and body for that one request.
C17_BackendStatusAndBodyRelayed ==
    /\ HandlerOver /\ ~ClientGone(wire)
    /\ upstream.first # NoAnswer /\ upstream.fault = "none"
    =>  /\ Len(wire) >= 1
        /\ wire[1].status = upstream.first.status
        /\ IF req.method = "HEAD" THEN Len(wire) = 1 ELSE
                /\ Len(wire) = 2
                /\ wire[2].kind = "body"
                /\ wire[2].body = upstream.first.body
        /\ Len(upstream.sent) = 1

\* C18: every response relayed from the backend, error statuses included,
\* has the backend's headers without Connection, Transfer-Encoding and
\* Content-Encoding, and every other backend header unchanged.
C18_HopHeadersRemoved ==
    \A i \in 1..Len(wire) :
        wire[i].kind = "head" /\ upstream.final # NoAnswer =>
            wire[i].headers \ LibHeaders =
                {h \in upstream.final.headers :
                    h.name \notin {"Connection", "Transfer-Encoding",
                                   "Content-Encoding"}}

\* C19: the prober runs once before the listener accepts anything, makes at
\* most 15 connect attempts, makes none after its first successful one,
\* always terminates, and the listener can then start accepting whether the
\* prober succeeded or ran out of attempts.
C19_ProberBoundedAndAdvisory ==
    /\ [](attempts <= 15)
    /\ [](main = "probe" => ready = "unknown" /\ hpc = "none" /\ wire = <<>>)
    /\ [](main = "serve" => ready \in {"yes", "no"})
    /\ [][main # "probe" => main' # "probe"]_vars
    /\ [][ready # "unknown" => UNCHANGED <<attempts, ready>>]_vars
    /\ [][ProbeAttempt /\ backend = "up" => ready' = "yes" /\ main' = "create"]_vars
    /\ [][ready = "unknown" /\ ready' = "no" => attempts = 15]_vars
    /\ [](main = "create" => ENABLED ServerStart)
    /\ <>(main # "probe")

\* the prober ran out of its 15 attempts and the listener serves a request
C19_Witness ==
    /\ main = "serve" /\ ready = "no" /\ attempts = 15
    /\ hpc = "returned"

\* C20: when a write of the response to the client fails with a broken
\* pipe, the handler attempts no further write and ends normally.
C20_ClientDisconnectSwallowed ==
    \A i \in 1..Len(wire) :
        /\ HandlerOver
        /\ wire[i].kind \in {"head", "body"} /\ wire[i].res = "EPIPE"
        =>  /\ hpc = "returned"
            /\ i = Len(wire)

\* C21: reload is best-effort.  When the PID file is missing, unreadable or
\* malformed, or the SIGHUP cannot be sent, the save still answers 200 with
\* success and config_reloaded=false; a SIGHUP goes out only when the PID
\* file held a pid, and only to that pid.
C21_ReloadIsBestEffort ==
    [][SaveReload =>
        LET unsendable == \/ pidfile.kind # "text"
                          \/ pidfile.form \in BadForms
                          \/ manager[pidfile.pid] # "alive"
        IN  /\ unsendable =>
                /\ vresp'.status = 200 /\ vresp'.success
                /\ ~vresp'.config_reloaded
                /\ hups' = hups
            /\ hups' # hups =>
                /\ pidfile.kind = "text" /\ pidfile.form \in GoodForms
                /\ hups' = Append(hups, pidfile.pid)]_vars

C21_Witness ==
    /\ vpc = "done" /\ vresp.status = 200 /\ vresp.success
    /\ ~vresp.config_reloaded
    /\ pidfile.kind = "text" /\ pidfile.form \in GoodForms
    /\ manager[pidfile.pid] = "gone"

\* C22: poll or terminate on an id that is not in the Registry, never issued
\* or already reaped, is answered 404, signals no process and leaves the
\* Registry, the output files and the open sinks as they were.
C22_UnknownIdIsNotFound ==
    [][\A id \in Pids :
            (PollRead(id) \/ StopSignal(id)) /\ id \notin Ids =>
                /\ pc' = "done" /\ resp'.status = 404 /\ resp'.id = id
                /\ UNCHANGED <<registry, files, sinks, procs>>]_vars

\* a terminate of an id that was reaped before, others still registered
C22_Witness ==
    /\ pc = "done" /\ resp.op = "stop" /\ resp.status = 404
    /\ resp.id \in gone
    /\ Ids # {} /\ files # {}

\* C23: the intercept redirect is written only for a GET or HEAD whose path
\* is a detection path, and a request that is intercepted never reaches the
\* backend; POST and OPTIONS, also to a detection path, and GET/HEAD of any
\* other path go to proxy_request, which sends them to the backend with
\* their method and path.
C23_InterceptOnlyGetHead ==
    /\ [](verdict = "Intercept" => upstream = NoUpstream)
    /\ [][/\ handle_portal_detection =>
                /\ req.method \in {"GET", "HEAD"}
                /\ is_portal_detection_request(req.path)
                /\ upstream = NoUpstream
          /\ Dispatch =>
                IF \/ req.method \in {"POST", "OPTIONS"}
                   \/ /\ req.method \in {"GET", "HEAD"}
                      /\ ~is_portal_detection_request(req.path)
                THEN hpc' = "urlopen" /\ wire' = <<>>
                ELSE hpc' # "urlopen"
          /\ Urlopen =>
                upstream'.sent[1] = [method |-> req.method, path |-> req.path]]_vars

\* a POST to a detection path has been sent to the backend
C23_Witness ==
    /\ req.method = "POST" /\ is_portal_detection_request(req.path)
    /\ Len(upstream.sent) >= 1
    /\ upstream.sent[1] = [method |-> "POST", path |-> req.path]
    /\ StatusLines(wire) # <<>>
    /\ wire[1].status # 302

\* C24: poll on a registered handle whose process is still running answers
\* running=true with no exit code and leaves the Registry, the handle, the
\* open sink and the output file as they were.
C24_PollOfRunningChangesNothing ==
    [][/\ \A id \in Pids :
            PollRead(id) /\ id \in Ids /\ Running(id) =>
                /\ pc' = "p_poll"
                /\ UNCHANGED <<registry, files, sinks>>
       /\ PollStatus /\ Running(cur.id) =>
            /\ pc' = "done" /\ resp'.status = 200
            /\ resp'.running /\ resp'.code = {}
            /\ UNCHANGED <<registry, files, sinks>>]_vars

\* C25: a command whose text is empty once the surrounding whitespace is
\* stripped is rejected with 400 like an empty one: no output file, no
\* process, no Registry entry.
C25_BlankCommandRejected ==
    [][/\ \A c \in Commands :
            SpawnCheck(c) /\ c.json /\ StripLen(c) = 0 =>
                /\ pc' = "done" /\ resp'.status = 400
                /\ UNCHANGED <<files, registry, procs>>
       /\ SpawnPopen /\ cur.len = 0 =>
            \A pid \in Pids : procs[pid].st = "free" => procs'[pid].st = "free"]_vars

\* C26: when poll answers running=false, the output in that answer is all
\* the process wrote to its file before it exited: nothing written between
\* the read of the file and the status check is missing when the file is
\* deleted.
C26_FinalPollReturnsAllOutput ==
    [][PollStatus /\ resp'.status = 200 /\ ~resp'.running =>
            resp'.out = procs[cur.id].out]_vars

\* the proxy's process exists
ProxyAlive == main \in {"probe", "create", "serve", "shutdown"}

\* C27: once SIGTERM or SIGINT has reached the proxy while it serves, its
\* shutdown handler completes and the process exits.
C27_SignalEndsProxy == (main = "shutdown") ~> ~ProxyAlive

\* C28: SIGTERM or SIGINT delivered to the config server ends the process,
\* whichever handler was executing when it arrived, a terminate in its
\* grace wait included.  (The exit is part of the step that delivers the
\* signal: nothing later acts on a signal that did not end the process.)
C28_SignalEndsServer == [][Signal => srv' = "exited"]_vars

\* the status lines that reached the client
StatusLinesSent(w) ==
    SelectSeq(w, LAMBDA e : e.kind \in {"head", "error"} /\ e.res = "ok")

\* C29: for every request the proxy handles, at most one response (status
\* line and headers) is written to the client, also when reading the
\* backend's body fails after its status and headers were relayed.
C29_AtMostOneResponse == Len(StatusLinesSent(wire)) <= 1

\* C30: between requests, every output file that exists is the file of a
\* handle in the Registry: what spawn created is owned or deleted, also
\* after a spawn that failed while starting its process.
C30_NoFileWithoutHandle ==
    srv = "serving" /\ pc = "idle" =>
        files \subseteq {registry[id].file : id \in Ids}

====
